---- MODULE Spec2Model ----
(***************************************************************************)
(* Model of dutch_med_hips: the pattern registry (build_pattern_configs),  *)
(* the substitution engine (HideInPlainSight.__init__ / run) and the       *)
(* surrogate generators the engine calls.                                  *)
(*                                                                         *)
(* Texts are sequences of one-character strings.  A placeholder tag such   *)
(* as <PATIENT_ID> is written with a short spelling ("P"); the             *)
(* document-sub-id tag <RAPPORT_ID.T_NUMMER> is written "R" followed by    *)
(* the subtype character, which the pattern captures in its own group.     *)
(* Python's None is the empty tuple, an optional value x is <<x>>.         *)
(***************************************************************************)
EXTENDS Integers, Sequences, FiniteSets, TLC

VARIABLES
    rng,              \* state of the process-wide `random` module
    fake,             \* state of the module-level Faker instance _fake
    age_defaults,     \* AGE_* values imported from .defaults
    pc,               \* "idle" | "ready" | "running" | "returned" | "error"
    engine,           \* the HideInPlainSight instance (None before construction)
    error,            \* the exception a failed construction raised, with the list it
                      \* was given (None if none)
    text,             \* run: the input text
    keep_mapping,     \* run: the keep_mapping argument
    pos,              \* run: position of re.sub's scan in text
    out,              \* run: output text built so far by re.sub
    per_type_counts,  \* run: per_type_counts
    mapping,          \* run: mapping
    matches,          \* run: log of the matches re.sub has handed to _replacement
    result,           \* return value of the last finished run (None if none)
    runs,             \* finished runs of this process: [seed, text, keep, result]
    built,            \* return value / exception of the last build_pattern_configs call
    age_pc,           \* generate_fake_age: "idle" | "loop" | "fallback" | "done"
    age_k,            \* generate_fake_age: chosen mixture component (0-based)
    age_i,            \* generate_fake_age: rejection draws made so far
    age_out,          \* generate_fake_age: returned age (None until it returns)
    age_clamped       \* generate_fake_age: the return value came from the final clamp

vars == <<rng, fake, age_defaults, pc, engine, error, text, keep_mapping, pos, out,
          per_type_counts, mapping, matches, result, runs, built,
          age_pc, age_k, age_i, age_out, age_clamped>>

engineVars == <<pc, engine, error, text, keep_mapping, pos, out, per_type_counts,
                mapping, matches, result, runs>>
ageVars == <<age_pc, age_k, age_i, age_out, age_clamped>>

(***************************************************************************)
(* Bounds of the exploration.                                              *)
(***************************************************************************)
MaxLen == 3
MaxBindings == 2
MaxCtorBindings == 3
MaxOverride == 2
MaxCap == 2
RngMod == 2
MaxRuns == 2
MaxRunsLen == 2
AgeSpread == 2

None == <<>>
Some(x) == <<x>>
Val(o) == o[1]

(***************************************************************************)
(* Sequence helpers.                                                       *)
(***************************************************************************)
RECURSIVE SeqsUpTo(_, _)
SeqsUpTo(S, n) ==
    IF n = 0 THEN {<<>>}
    ELSE LET shorter == SeqsUpTo(S, n - 1)
         IN  shorter \cup {Append(s, x) : s \in {t \in shorter : Len(t) = n - 1}, x \in S}

Range(s) == {s[i] : i \in 1..Len(s)}

RECURSIVE Sum(_)
Sum(s) == IF s = <<>> THEN 0 ELSE s[1] + Sum(Tail(s))

RECURSIVE Flat(_)
Flat(ss) == IF ss = <<>> THEN <<>> ELSE ss[1] \o Flat(Tail(ss))

\* Python slice s[a:b] with 0-based offsets a <= b.
Slice(s, a, b) == SubSeq(s, a + 1, b)

(***************************************************************************)
(* constants.py                                                            *)
(***************************************************************************)
PATIENT_ID == "patient_id"
DOCUMENT_SUB_ID == "document_sub_id"
AGE == "age"

\* A regex pattern string: the literal `pre`, then (when `alts` is not empty) an
\* alternation of literals, capturing when `grp`.  Two pattern strings are equal
\* exactly when the records are.
Lit(cs) == [pre |-> cs, alts |-> <<>>, grp |-> FALSE]
PAT_PATIENT == Lit(<<"P">>)
PAT_AGE == Lit(<<"A">>)
PAT_SUB == [pre |-> <<"R">>, alts |-> << <<"T">>, <<"C">> >>, grp |-> TRUE]
PAT_SUB_NOGROUP == [pre |-> <<"R">>, alts |-> << <<"T">>, <<"C">> >>, grp |-> FALSE]

\* The dict DEFAULT_PATTERNS, in insertion order.
DEFAULT_PATTERNS ==
    << [phi_type |-> PATIENT_ID, patterns |-> <<PAT_PATIENT>>],
       [phi_type |-> DOCUMENT_SUB_ID, patterns |-> <<PAT_SUB>>],
       [phi_type |-> AGE, patterns |-> <<PAT_AGE>>] >>

PHITypes == {DEFAULT_PATTERNS[i].phi_type : i \in 1..Len(DEFAULT_PATTERNS)}

\* The dict DEFAULT_GENERATORS: PHI type -> generator function (by name).
DEFAULT_GENERATORS ==
    [t \in PHITypes |->
        CASE t = PATIENT_ID -> "generate_fake_patient_id"
          [] t = DOCUMENT_SUB_ID -> "generate_fake_document_sub_id"
          [] t = AGE -> "generate_fake_age"]

PatternConfig(t, p, g, m) ==
    [phi_type |-> t, pattern |-> p, generator |-> g, max_per_document |-> m]

(***************************************************************************)
(* build_pattern_configs                                                   *)
(***************************************************************************)
\* list(dict.fromkeys(xs)): duplicates dropped, first occurrences kept in order.
RECURSIVE DedupFrom(_, _)
DedupFrom(xs, seen) ==
    IF xs = <<>> THEN <<>>
    ELSE IF xs[1] \in seen THEN DedupFrom(Tail(xs), seen)
         ELSE <<xs[1]>> \o DedupFrom(Tail(xs), seen \cup {xs[1]})
Dedup(xs) == DedupFrom(xs, {})

\* Bug variant: the overrides are added to the defaults instead of replacing them.
FinalPatternsPerType_Additive(custom) ==
    [i \in 1..Len(DEFAULT_PATTERNS) |->
        LET d == DEFAULT_PATTERNS[i]
        IN  [phi_type |-> d.phi_type,
             patterns |-> IF d.phi_type \in DOMAIN custom
                          THEN Dedup(custom[d.phi_type] \o d.patterns)
                          ELSE Dedup(d.patterns)]]

\* Step 1: defaults merged with the overrides.  `custom` is a function from the
\* overridden PHI types to pattern lists (None or {} is the empty function).
FinalPatternsPerType(custom) ==
    [i \in 1..Len(DEFAULT_PATTERNS) |->
        LET d == DEFAULT_PATTERNS[i]
        IN  [phi_type |-> d.phi_type,
             patterns |-> IF d.phi_type \in DOMAIN custom
                          THEN Dedup(custom[d.phi_type])
                          ELSE Dedup(d.patterns)]]

\* The (phi_type, pattern) pairs in the order the nested loops visit them.
RECURSIVE Pairs(_)
Pairs(final) ==
    IF final = <<>> THEN <<>>
    ELSE [j \in 1..Len(final[1].patterns) |->
             [phi_type |-> final[1].phi_type, pattern |-> final[1].patterns[j]]]
         \o Pairs(Tail(final))

\* Bug variant: the owner of a pattern is overwritten on a conflict too.
RECURSIVE ConflictLoop_Overwrite(_, _, _)
ConflictLoop_Overwrite(pairs, seen, conflicts) ==
    IF pairs = <<>> THEN conflicts
    ELSE LET p == pairs[1].pattern
             t == pairs[1].phi_type
             owned == [q \in DOMAIN seen \cup {p} |-> IF q = p THEN t ELSE seen[q]]
         IN  IF p \in DOMAIN seen /\ seen[p] # t
             THEN ConflictLoop_Overwrite(Tail(pairs), owned,
                      Append(conflicts, [pattern |-> p, first |-> seen[p], second |-> t]))
             ELSE ConflictLoop_Overwrite(Tail(pairs), owned, conflicts)

\* Step 2: the loop over `seen` / `conflicts`.  seen is a function pattern -> type.
RECURSIVE ConflictLoop(_, _, _)
ConflictLoop(pairs, seen, conflicts) ==
    IF pairs = <<>> THEN conflicts
    ELSE LET p == pairs[1].pattern
             t == pairs[1].phi_type
         IN  IF p \in DOMAIN seen /\ seen[p] # t
             THEN ConflictLoop(Tail(pairs), seen,
                      Append(conflicts, [pattern |-> p, first |-> seen[p], second |-> t]))
             ELSE ConflictLoop(Tail(pairs),
                      [q \in DOMAIN seen \cup {p} |-> IF q = p THEN t ELSE seen[q]],
                      conflicts)
RegistryConflicts(final) == ConflictLoop(Pairs(final), << >>, <<>>)

\* Step 3: one PatternConfig per pattern, by category in order.
RECURSIVE BuildConfigs(_, _)
BuildConfigs(final, max_per_document) ==
    IF final = <<>> THEN <<>>
    ELSE LET t == final[1].phi_type
             max_doc == IF t \in DOMAIN max_per_document
                        THEN Some(max_per_document[t]) ELSE None
         IN  [j \in 1..Len(final[1].patterns) |->
                 PatternConfig(t, final[1].patterns[j], DEFAULT_GENERATORS[t], max_doc)]
             \o BuildConfigs(Tail(final), max_per_document)

MissingGenerators(final) ==
    {i \in 1..Len(final) : final[i].phi_type \notin DOMAIN DEFAULT_GENERATORS}

build_pattern_configs(custom, max_per_document) ==
    LET final == FinalPatternsPerType(custom)
        conflicts == RegistryConflicts(final)
    IN  IF conflicts # <<>>
        THEN [status |-> "ValueError", conflicts |-> conflicts, configs |-> <<>>]
        ELSE IF MissingGenerators(final) # {}
        THEN [status |-> "KeyError", conflicts |-> <<>>, configs |-> <<>>]
        ELSE [status |-> "ok", conflicts |-> <<>>,
              configs |-> BuildConfigs(final, max_per_document)]

(***************************************************************************)
(* The random sources.  random.seed(seed) and every draw are functions of  *)
(* the state; the states form a cycle of RngMod values.                    *)
(***************************************************************************)
RngStates == 0..(RngMod - 1)
SeedState(seed) == seed % RngMod
NextState(s) == (s + 1) % RngMod

(***************************************************************************)
(* .defaults (AGE_MIN, AGE_MAX, AGE_GMM_MEANS, AGE_GMM_VARS,               *)
(* AGE_GMM_WEIGHTS) as a record; the lists are sequences of integers.      *)
(***************************************************************************)
AgeDefaults(lo, hi, means, variances, weights) ==
    [AGE_MIN |-> lo, AGE_MAX |-> hi, AGE_GMM_MEANS |-> means,
     AGE_GMM_VARS |-> variances, AGE_GMM_WEIGHTS |-> weights]

(***************************************************************************)
(* surrogates.py: _choose_weighted_index and generate_fake_age             *)
(***************************************************************************)
\* The loop `for i, w in enumerate(weights)`: first index whose running total
\* reaches r, else the last index.  Indexes are 0-based as in the source.
RECURSIVE WeightedScan(_, _, _, _)
WeightedScan(weights, r, i, acc) ==
    IF i >= Len(weights) THEN Len(weights) - 1
    ELSE IF r <= acc + weights[i + 1] THEN i
         ELSE WeightedScan(weights, r, i + 1, acc + weights[i + 1])

\* u is the value random.random() * total takes, j the value
\* random.randrange(len(weights)) takes.
choose_weighted_index(weights, u, j) ==
    IF Sum(weights) <= 0 THEN j ELSE WeightedScan(weights, u, 0, 0)

\* math.sqrt(var) if var > 0 else 1.0, on the perfect squares the model uses.
Sigma(var) ==
    IF var > 0 THEN CHOOSE s \in 0..var : s * s <= var /\ (s + 1) * (s + 1) > var
    ELSE 1

Misconfigured(d) ==
    d.AGE_GMM_MEANS = <<>> \/ d.AGE_GMM_VARS = <<>> \/ d.AGE_GMM_WEIGHTS = <<>>

InBounds(d, age) == d.AGE_MIN <= age /\ age <= d.AGE_MAX

Min2(a, b) == IF a <= b THEN a ELSE b
Max2(a, b) == IF a >= b THEN a ELSE b

\* Bug variant: only the upper bound is enforced.
Clamp_UpperOnly(d, age) == Min2(d.AGE_MAX, age)

\* max(AGE_MIN, min(AGE_MAX, age))
Clamp(d, age) == Max2(d.AGE_MIN, Min2(d.AGE_MAX, age))

AGE_RETRIES == 10

(***************************************************************************)
(* The combined regex of __init__: "(?P<p0>pat0)|(?P<p1>pat1)|...", and    *)
(* what re gives for it: alternatives tried left to right at a position,   *)
(* the leftmost position with a match first.  Offsets are 0-based.         *)
(***************************************************************************)
HasPrefixAt(t, at, lit) ==
    /\ at + Len(lit) <= Len(t)
    /\ \A i \in 1..Len(lit) : t[at + i] = lit[i]

\* The alternatives of pattern p that match at `at` (1-based indexes into p.alts).
AltsAt(p, t, at) == {j \in 1..Len(p.alts) : HasPrefixAt(t, at, p.pre \o p.alts[j])}

PatternMatchesAt(p, t, at) ==
    IF p.alts = <<>> THEN HasPrefixAt(t, at, p.pre) ELSE AltsAt(p, t, at) # {}

\* The text the pattern's alternation matched (empty when it has none).
AltText(p, t, at) ==
    IF p.alts = <<>> THEN <<>>
    ELSE p.alts[CHOOSE j \in AltsAt(p, t, at) : \A k \in AltsAt(p, t, at) : j <= k]

PatternEnd(p, t, at) == at + Len(p.pre) + Len(AltText(p, t, at))

\* Number of capture groups the pattern itself holds.
InnerGroups(p) == IF p.alts # <<>> /\ p.grp THEN 1 ELSE 0

\* Number of the named group p<idx> in the combined regex (idx is 0-based).
RECURSIVE GroupNumber(_, _)
GroupNumber(cfgs, idx) ==
    IF idx = 0 THEN 1
    ELSE GroupNumber(cfgs, idx - 1) + 1 + InnerGroups(cfgs[idx].pattern)

\* The 0-based indexes of the bindings whose alternative matches at `at`.
FiringAt(cfgs, t, at) ==
    {i \in 0..(Len(cfgs) - 1) : PatternMatchesAt(cfgs[i + 1].pattern, t, at)}

\* Bug variant: the last alternative that matches is taken.
Alternative_Last(S) == CHOOSE i \in S : \A k \in S : i >= k

\* Alternatives are tried left to right: the first one that matches is taken.
Alternative(S) == CHOOSE i \in S : \A k \in S : i <= k

\* group_name = f"p{idx}"
GroupName(idx) == <<"p", idx>>

\* match.lastgroup for a given match.lastindex: the name of that group, None
\* when the group has no name (a pattern's inner group).
LastGroup(cfgs, lastindex) ==
    IF \E i \in 0..(Len(cfgs) - 1) : GroupNumber(cfgs, i) = lastindex
    THEN Some(GroupName(CHOOSE i \in 0..(Len(cfgs) - 1) : GroupNumber(cfgs, i) = lastindex))
    ELSE None

\* self._group_to_config: group name -> 0-based index of its binding.
GroupToConfig(cfgs) ==
    [g \in {GroupName(i) : i \in 0..(Len(cfgs) - 1)} |-> g[2]]

\* The re.Match at position `at`: the earliest alternative that matches there.
\* groups[n] is match.group(n) for n >= 1: None or <<text>>.  lastindex is
\* the group closed last, the wrapper group of the alternative.
MatchAt(cfgs, t, at) ==
    LET idx == Alternative(FiringAt(cfgs, t, at))
        p == cfgs[idx + 1].pattern
        stop == PatternEnd(p, t, at)
    IN  [start |-> at,
         end |-> stop,
         idx |-> idx,
         lastindex |-> GroupNumber(cfgs, idx),
         lastgroup |-> LastGroup(cfgs, GroupNumber(cfgs, idx)),
         groups |-> Flat([i \in 1..Len(cfgs) |->
                       <<IF i = idx + 1 THEN Some(Slice(t, at, stop)) ELSE None>>
                       \o IF InnerGroups(cfgs[i].pattern) = 1
                          THEN <<IF i = idx + 1 THEN Some(AltText(p, t, at)) ELSE None>>
                          ELSE <<>>])]

\* Positions at or after `from` where the combined regex matches.
MatchPositions(cfgs, t, from) == {a \in from..Len(t) : FiringAt(cfgs, t, a) # {}}

HasNextMatch(cfgs, t, from) == MatchPositions(cfgs, t, from) # {}

NextMatch(cfgs, t, from) ==
    MatchAt(cfgs, t, CHOOSE a \in MatchPositions(cfgs, t, from) :
                         \A b \in MatchPositions(cfgs, t, from) : a <= b)

\* Bug variant: the matched text is lost.
Group0_Lost(t, m) == <<>>

\* match.group(0)
Group0(t, m) == Slice(t, m.start, m.end)

(***************************************************************************)
(* surrogates.py: the generators the engine calls.  A generator returns    *)
(* the surrogate (a sequence of strings) and the states it leaves the two  *)
(* random sources in.                                                      *)
(***************************************************************************)
Gen(s, r, f) == [surrogate |-> s, rng |-> r, fake |-> f]

\* _fake.bothify(text="PAT-######"): the digits are one draw from _fake.
generate_fake_patient_id(m, r, f) == Gen(<<"PAT-", ToString(f)>>, r, NextState(f))

\* subtype = match.group(1) if match.lastindex and match.lastindex >= 1 else "X";
\* the f-string renders a None subtype as "None".
SubtypeOf(m) ==
    IF m.lastindex # 0 /\ m.lastindex >= 1
    THEN IF m.groups[1] = None THEN <<"None">> ELSE Val(m.groups[1])
    ELSE <<"X">>

generate_fake_document_sub_id(m, r, f) ==
    Gen(<<"RAPPORT-">> \o SubtypeOf(m) \o <<"-NUMMER-", ToString(f)>>, r, NextState(f))

\* random.gauss(mean, sigma) rounded, as a function of the state of `random`.
GaussRounded(mean, sigma, r) == mean + sigma * (2 * r - 1)

RECURSIVE AgeLoop(_, _, _, _, _)
AgeLoop(d, mean, sigma, i, r) ==
    LET age == GaussRounded(mean, sigma, r)
    IN  IF i < AGE_RETRIES
        THEN IF InBounds(d, age) THEN [age |-> age, rng |-> NextState(r)]
             ELSE AgeLoop(d, mean, sigma, i + 1, NextState(r))
        ELSE [age |-> Clamp(d, age), rng |-> NextState(r)]

generate_fake_age(d, m, r, f) ==
    IF Misconfigured(d)
    THEN Gen(<<ToString(d.AGE_MIN + (r % (d.AGE_MAX - d.AGE_MIN + 1)))>>, NextState(r), f)
    ELSE LET w == d.AGE_GMM_WEIGHTS
             k == choose_weighted_index(w, ((r + 1) * Sum(w)) \div RngMod, r % Len(w))
             got == AgeLoop(d, d.AGE_GMM_MEANS[k + 1], Sigma(d.AGE_GMM_VARS[k + 1]),
                            0, NextState(r))
         IN  Gen(<<ToString(got.age)>>, got.rng, f)

\* cfg.generator(match)
CallGenerator(d, cfg, m, r, f) ==
    CASE cfg.generator = "generate_fake_patient_id" -> generate_fake_patient_id(m, r, f)
      [] cfg.generator = "generate_fake_document_sub_id" ->
             generate_fake_document_sub_id(m, r, f)
      [] cfg.generator = "generate_fake_age" -> generate_fake_age(d, m, r, f)

(***************************************************************************)
(* HideInPlainSight.__init__                                               *)
(***************************************************************************)
\* Bug variant: a pattern met twice raises even within one PHI type.
RECURSIVE OwnerLoop_AnyRepeat(_, _)
OwnerLoop_AnyRepeat(cfgs, pattern_owner) ==
    IF cfgs = <<>> THEN None
    ELSE LET p == cfgs[1].pattern
             t == cfgs[1].phi_type
         IN  IF p \in DOMAIN pattern_owner
             THEN Some([pattern |-> p, first |-> pattern_owner[p], second |-> t])
             ELSE OwnerLoop_AnyRepeat(Tail(cfgs),
                      [q \in DOMAIN pattern_owner \cup {p} |->
                          IF q = p THEN t ELSE pattern_owner[q]])

\* The defensive loop over pattern_owner: the first binding whose pattern is
\* already owned by another PHI type raises; None when the loop completes.
RECURSIVE OwnerLoop(_, _)
OwnerLoop(cfgs, pattern_owner) ==
    IF cfgs = <<>> THEN None
    ELSE LET p == cfgs[1].pattern
             t == cfgs[1].phi_type
         IN  IF p \in DOMAIN pattern_owner /\ pattern_owner[p] # t
             THEN Some([pattern |-> p, first |-> pattern_owner[p], second |-> t])
             ELSE OwnerLoop(Tail(cfgs),
                      [q \in DOMAIN pattern_owner \cup {p} |->
                          IF q = p THEN t ELSE pattern_owner[q]])
FirstOwnerConflict(cfgs) == OwnerLoop(cfgs, << >>)

\* The constructor's outcome for its arguments: pattern_configs is None or
\* <<list>>, seed is None or <<int>>.
Constructed(pattern_configs, seed, custom, max_per_document) ==
    LET reg == build_pattern_configs(custom, max_per_document)
    IN  IF pattern_configs = None /\ reg.status # "ok"
        THEN [status |-> reg.status, conflicts |-> reg.conflicts, configs |-> <<>>,
              engine |-> None]
        ELSE LET cfgs == IF pattern_configs = None THEN reg.configs
                         ELSE Val(pattern_configs)
                 clash == FirstOwnerConflict(cfgs)
             IN  IF clash # None
                 THEN [status |-> "ValueError", conflicts |-> <<Val(clash)>>,
                       configs |-> cfgs, engine |-> None]
                 ELSE [status |-> "ok", conflicts |-> <<>>, configs |-> cfgs,
                       engine |-> Some([pattern_configs |-> cfgs,
                                        compiled |-> cfgs # <<>>,
                                        seed |-> seed])]

Construct(from, lists, seeds, customs, maxdocs) ==
    /\ pc \in from
    /\ \E pattern_configs \in lists, seed \in seeds, custom \in customs,
          max_per_document \in maxdocs :
          \E made \in {Constructed(pattern_configs, seed, custom, max_per_document)} :
              IF made.status = "ok"
              THEN /\ engine' = made.engine
                   /\ error' = None
                   /\ pc' = "ready"
                   /\ rng' = IF seed # None THEN SeedState(Val(seed)) ELSE rng
              ELSE /\ engine' = None
                   /\ error' = Some([type |-> made.status, conflicts |-> made.conflicts,
                                      pattern_configs |-> made.configs])
                   /\ pc' = "error"
                   /\ rng' = rng
    /\ UNCHANGED <<fake, age_defaults, text, keep_mapping, pos, out, per_type_counts,
                   mapping, matches, result, runs, built>>
    /\ UNCHANGED ageVars

(***************************************************************************)
(* HideInPlainSight.run                                                    *)
(***************************************************************************)
Cfgs == Val(engine).pattern_configs

\* per_type_counts.get(phi_type, 0)
CountOf(counts, t) == IF t \in DOMAIN counts THEN counts[t] ELSE 0

\* cfg.max_per_document is not None and count >= cfg.max_per_document
LimitReached(cfg, count) ==
    cfg.max_per_document # None /\ count >= Val(cfg.max_per_document)

\* Bug variant: the end offset is taken from the surrogate's length.
MappingRecord_SurrogateSpan(cfg, t, m, surrogate) ==
    [phi_type |-> cfg.phi_type, pattern |-> cfg.pattern, original |-> Group0(t, m),
     surrogate |-> surrogate, start |-> m.start, end |-> m.start + Len(surrogate)]

MappingRecord(cfg, t, m, surrogate) ==
    [phi_type |-> cfg.phi_type, pattern |-> cfg.pattern, original |-> Group0(t, m),
     surrogate |-> surrogate, start |-> m.start, end |-> m.end]

\* Bug variant: the record is appended before the limit is looked at.
Replacement_RecordsFirst(d, cfg, t, m, keep, counts, map, r, f) ==
    LET count == CountOf(counts, cfg.phi_type)
        gen == CallGenerator(d, cfg, m, r, f)
        recorded == IF keep THEN Append(map, MappingRecord(cfg, t, m, gen.surrogate))
                    ELSE map
    IN  IF LimitReached(cfg, count)
        THEN [ret |-> Group0(t, m), replaced |-> FALSE, counts |-> counts,
              mapping |-> recorded, rng |-> r, fake |-> f]
        ELSE [ret |-> gen.surrogate, replaced |-> TRUE,
              counts |-> [x \in DOMAIN counts \cup {cfg.phi_type} |->
                             IF x = cfg.phi_type THEN count + 1 ELSE counts[x]],
              mapping |-> recorded, rng |-> gen.rng, fake |-> gen.fake]

\* One call of _replacement: what it returns and what it leaves behind.
Replacement(d, cfg, t, m, keep, counts, map, r, f) ==
    LET count == CountOf(counts, cfg.phi_type)
        gen == CallGenerator(d, cfg, m, r, f)
    IN  IF LimitReached(cfg, count)
        THEN [ret |-> Group0(t, m), replaced |-> FALSE, counts |-> counts,
              mapping |-> map, rng |-> r, fake |-> f]
        ELSE [ret |-> gen.surrogate, replaced |-> TRUE,
              counts |-> [x \in DOMAIN counts \cup {cfg.phi_type} |->
                             IF x = cfg.phi_type THEN count + 1 ELSE counts[x]],
              mapping |-> IF keep
                          THEN Append(map, MappingRecord(cfg, t, m, gen.surrogate))
                          ELSE map,
              rng |-> gen.rng, fake |-> gen.fake]

RunResult(t, keep, map) == [text |-> t, mapping |-> IF keep THEN Some(map) ELSE None]

RunRecord(res) ==
    [seed |-> Val(engine).seed, configs |-> Cfgs, text |-> text,
     keep_mapping |-> keep_mapping, result |-> res]

\* Bug variant: the counters of the previous run are kept.
FreshCounters_Carried == per_type_counts

\* per_type_counts: Dict[str, int] = {}, created by each call of run.
FreshCounters == << >>

\* run is called: the early return when there is no combined pattern, otherwise
\* the state before re.sub's first match.
RunStart(from, texts, maxRuns) ==
    /\ pc \in from
    /\ engine # None
    /\ Len(runs) < maxRuns
    /\ \E t \in texts, keep \in BOOLEAN :
          /\ text' = t
          /\ keep_mapping' = keep
          /\ IF Val(engine).compiled
             THEN /\ pc' = "running"
                  /\ UNCHANGED <<result, runs>>
             ELSE /\ pc' = "returned"
                  /\ result' = Some(RunResult(t, keep, <<>>))
                  /\ runs' = Append(runs, [seed |-> Val(engine).seed, configs |-> Cfgs,
                                           text |-> t, keep_mapping |-> keep,
                                           result |-> RunResult(t, keep, <<>>)])
    /\ pos' = 0
    /\ out' = <<>>
    /\ per_type_counts' = FreshCounters
    /\ mapping' = <<>>
    /\ matches' = <<>>
    /\ UNCHANGED <<rng, fake, age_defaults, engine, error, built>>
    /\ UNCHANGED ageVars

\* re.sub finds the next match and calls _replacement for it.
ReplacementStep ==
    /\ pc = "running"
    /\ HasNextMatch(Cfgs, text, pos)
    /\ \E m \in {NextMatch(Cfgs, text, pos)} :
       \E cfgIdx \in {GroupToConfig(Cfgs)[Val(m.lastgroup)]} :
       \E did \in {Replacement(age_defaults, Cfgs[cfgIdx + 1], text, m, keep_mapping,
                                per_type_counts, mapping, rng, fake)} :
           /\ out' = out \o Slice(text, pos, m.start) \o did.ret
           /\ pos' = m.end
           /\ per_type_counts' = did.counts
           /\ mapping' = did.mapping
           /\ rng' = did.rng
           /\ fake' = did.fake
           /\ matches' = Append(matches,
                  [start |-> m.start, end |-> m.end, idx |-> cfgIdx,
                   phi_type |-> Cfgs[cfgIdx + 1].phi_type, replaced |-> did.replaced,
                   ret |-> did.ret, groups |-> m.groups])
    /\ UNCHANGED <<age_defaults, pc, engine, error, text, keep_mapping, result, runs,
                   built>>
    /\ UNCHANGED ageVars

\* re.sub finds no further match, copies the rest of the text, and run returns.
RunReturn ==
    /\ pc = "running"
    /\ ~HasNextMatch(Cfgs, text, pos)
    /\ \E res \in {RunResult(out \o Slice(text, pos, Len(text)), keep_mapping, mapping)} :
           /\ result' = Some(res)
           /\ runs' = Append(runs, RunRecord(res))
    /\ out' = out \o Slice(text, pos, Len(text))
    /\ pos' = Len(text)
    /\ pc' = "returned"
    /\ UNCHANGED <<rng, fake, age_defaults, engine, error, text, keep_mapping,
                   per_type_counts, mapping, matches, built>>
    /\ UNCHANGED ageVars

(***************************************************************************)
(* build_pattern_configs called on its own.                                *)
(***************************************************************************)
BuildCall(customs, maxdocs) ==
    /\ built = None
    /\ \E custom \in customs, max_per_document \in maxdocs :
          built' = Some([custom |-> custom, max_per_document |-> max_per_document,
                         outcome |-> build_pattern_configs(custom, max_per_document)])
    /\ UNCHANGED <<rng, fake, age_defaults>>
    /\ UNCHANGED engineVars
    /\ UNCHANGED ageVars

(***************************************************************************)
(* generate_fake_age called on its own, step by step; every draw of the    *)
(* random source may come out as any value.                                *)
(***************************************************************************)
\* Rounded normal draws: every integer around the bound.
Samples(d) == (d.AGE_MIN - AgeSpread)..(d.AGE_MAX + AgeSpread)

\* The indexes _choose_weighted_index can return for the weights.
WeightedIndexes(w) ==
    {choose_weighted_index(w, u, j) : u \in 0..Max2(Sum(w), 0), j \in 0..(Len(w) - 1)}

AgeCall ==
    /\ age_pc = "idle"
    /\ IF Misconfigured(age_defaults)
       THEN /\ \E a \in age_defaults.AGE_MIN..age_defaults.AGE_MAX : age_out' = Some(a)
            /\ age_pc' = "done"
            /\ age_k' = age_k
       ELSE /\ age_k' \in WeightedIndexes(age_defaults.AGE_GMM_WEIGHTS)
            /\ age_pc' = "loop"
            /\ age_out' = None
    /\ age_i' = 0
    /\ age_clamped' = FALSE
    /\ UNCHANGED <<rng, fake, age_defaults, built>>
    /\ UNCHANGED engineVars

\* One iteration of `for _ in range(10)`.
AgeDraw ==
    /\ age_pc = "loop"
    /\ age_i < AGE_RETRIES
    /\ \E age \in Samples(age_defaults) :
          IF InBounds(age_defaults, age)
          THEN /\ age_out' = Some(age)
               /\ age_pc' = "done"
          ELSE /\ age_out' = None
               /\ age_pc' = IF age_i + 1 < AGE_RETRIES THEN "loop" ELSE "fallback"
    /\ age_i' = age_i + 1
    /\ UNCHANGED <<rng, fake, age_defaults, built, age_k, age_clamped>>
    /\ UNCHANGED engineVars

\* The final sample after the loop, clamped.
AgeFallback ==
    /\ age_pc = "fallback"
    /\ \E age \in Samples(age_defaults) : age_out' = Some(Clamp(age_defaults, age))
    /\ age_pc' = "done"
    /\ age_clamped' = TRUE
    /\ UNCHANGED <<rng, fake, age_defaults, built, age_k, age_i>>
    /\ UNCHANGED engineVars

(***************************************************************************)
(* Inputs.                                                                 *)
(***************************************************************************)
Texts(alphabet, n) == SeqsUpTo(alphabet, n)

PatternUniverse == {PAT_PATIENT, PAT_SUB, PAT_SUB_NOGROUP, PAT_AGE}

Optional(S) == {None} \cup {Some(x) : x \in S}

Bindings(types, patterns, caps) ==
    {PatternConfig(t, p, DEFAULT_GENERATORS[t], m) : t \in types, p \in patterns, m \in caps}

\* Hand-assembled binding lists for the run specification.
HandBindings ==
    Bindings({PATIENT_ID, DOCUMENT_SUB_ID}, {PAT_PATIENT, PAT_SUB}, {None, Some(0)})
RunLists == Optional(SeqsUpTo(HandBindings, MaxBindings))

\* Overrides of one category by one pattern list, and no override.
SingleOverrides(n) ==
    {<< >>} \cup {t :> ps : t \in PHITypes, ps \in SeqsUpTo(PatternUniverse, n) \ {<<>>}}

\* The same cap for every category, and no caps.
UniformCaps == {<< >>} \cup {[t \in PHITypes |-> c] : c \in 0..MaxCap}

\* Every override mapping with lists of at most n patterns.
AllOverrides(n) ==
    UNION {[ts -> SeqsUpTo(PatternUniverse \ {PAT_SUB_NOGROUP}, n)] : ts \in SUBSET PHITypes}

Seeds == {None, Some(1)}

DefaultAge == AgeDefaults(0, 2, <<1>>, <<1>>, <<1>>)

\* Mixtures of up to two components, with non-positive variances and weights
\* among them, over every bound within 0..AgeSpread.
AgeConfigs ==
    UNION {{AgeDefaults(Min2(lo, hi), Max2(lo, hi), [i \in 1..n |-> 1], vs, ws) :
               vs \in [1..n -> {-1, 0, 4}], ws \in [1..n -> {-1, 0, 2}]} :
           lo \in 0..AgeSpread, hi \in 0..AgeSpread, n \in 0..2}

InitWith(defaults, rngs) ==
    /\ rng \in rngs
    /\ fake \in RngStates
    /\ age_defaults \in defaults
    /\ pc = "idle"
    /\ engine = None
    /\ error = None
    /\ text = <<>>
    /\ keep_mapping = FALSE
    /\ pos = 0
    /\ out = <<>>
    /\ per_type_counts = << >>
    /\ mapping = <<>>
    /\ matches = <<>>
    /\ result = None
    /\ runs = <<>>
    /\ built = None
    /\ age_pc = "idle"
    /\ age_k = 0
    /\ age_i = 0
    /\ age_out = None
    /\ age_clamped = FALSE

(***************************************************************************)
(* Specifications.                                                         *)
(***************************************************************************)
\* One engine, from the registry or hand-assembled, and one run.  The texts of
\* this specification hold no age tag, so `random` is never read in it.
MainTexts == Texts({"P", "R", "T"}, MaxLen)
MainOverrides == SingleOverrides(1)
Init == InitWith({DefaultAge}, {0})
Next ==
    \/ Construct({"idle"}, RunLists, {None}, MainOverrides, UniformCaps)
    \/ RunStart({"ready"}, MainTexts, 1)
    \/ ReplacementStep
    \/ RunReturn
Spec == Init /\ [][Next]_vars

\* Several engines from the default registry, seeded or not, and several runs.
RunsTexts == Texts({"P", "A"}, MaxRunsLen)
RunsCaps == {<< >>, PATIENT_ID :> 1}
InitRuns == InitWith({DefaultAge}, RngStates)
NextRuns ==
    \/ Construct({"idle", "returned"}, {None}, Seeds, {<< >>}, RunsCaps)
    \/ RunStart({"ready", "returned"}, RunsTexts, MaxRuns)
    \/ ReplacementStep
    \/ RunReturn
SpecRuns == InitRuns /\ [][NextRuns]_vars

\* build_pattern_configs on every override mapping.
RegistryOverrides == AllOverrides(MaxOverride)
InitRegistry == InitWith({DefaultAge}, {0})
NextRegistry == BuildCall(RegistryOverrides, UniformCaps)
SpecRegistry == InitRegistry /\ [][NextRegistry]_vars

\* One engine from the registry, with the same cap for every category, and
\* several runs on it.
InitCounters == InitWith({DefaultAge}, {0})
NextCounters ==
    \/ Construct({"idle"}, {None}, {None}, {<< >>}, UniformCaps)
    \/ RunStart({"ready", "returned"}, RunsTexts, MaxRuns)
    \/ ReplacementStep
    \/ RunReturn
SpecCounters == InitCounters /\ [][NextCounters]_vars

\* The constructor on hand-assembled lists of every category.
CtorLists ==
    Optional(SeqsUpTo(Bindings(PHITypes, {PAT_PATIENT, PAT_SUB}, {None}), MaxCtorBindings))
InitCtor == InitWith({DefaultAge}, RngStates)
NextCtor == Construct({"idle"}, CtorLists, Seeds, {<< >>}, {<< >>})
SpecCtor == InitCtor /\ [][NextCtor]_vars

\* generate_fake_age under every mixture configuration.
InitAge == InitWith(AgeConfigs, {0})
NextAge == AgeCall \/ AgeDraw \/ AgeFallback
SpecAge == InitAge /\ [][NextAge]_vars

(***************************************************************************)
(* Properties of run.                                                      *)
(***************************************************************************)
InRun == pc \in {"running", "returned"} /\ engine # None /\ Val(engine).compiled

\* Matches of category t seen so far, and those of them that were replaced.
MatchesOf(t) == {j \in 1..Len(matches) : matches[j].phi_type = t}
ReplacedOf(t) == {j \in MatchesOf(t) : matches[j].replaced}
RecordsOf(t) == {j \in 1..Len(mapping) : mapping[j].phi_type = t}
Unchanged == {j \in 1..Len(matches) : ~matches[j].replaced}

\* C1: for every binding that declares a cap c, the replacements (and the mapping
\* records) of that binding's category in one run number at most c.
C1_CategoryWithinEveryCap ==
    InRun =>
        \A i \in 1..Len(Cfgs) :
            Cfgs[i].max_per_document # None =>
                /\ Cardinality(ReplacedOf(Cfgs[i].phi_type)) <= Val(Cfgs[i].max_per_document)
                /\ Cardinality(RecordsOf(Cfgs[i].phi_type)) <= Val(Cfgs[i].max_per_document)

\* C2: once a match of a category was left unchanged, every later match of that
\* category is left unchanged too, and when run returns a category with cap c and
\* n matches has had exactly its first min(n, c) matches replaced.
C2_CappedStaysCapped ==
    InRun =>
        /\ \A i, j \in 1..Len(matches) :
               (i < j /\ matches[i].phi_type = matches[j].phi_type
                      /\ ~matches[i].replaced) => ~matches[j].replaced
        /\ pc = "returned" =>
               \A i \in 1..Len(Cfgs) :
                   Cfgs[i].max_per_document # None =>
                       Cardinality(ReplacedOf(Cfgs[i].phi_type))
                           = Min2(Cardinality(MatchesOf(Cfgs[i].phi_type)),
                                  Val(Cfgs[i].max_per_document))

\* The capture group of the document-sub-id pattern in the combined regex.
SubtypeGroup(j) == GroupNumber(Cfgs, matches[j].idx) + 1

\* C4: when the document-sub-id binding fires for the default pattern, the
\* surrogate is "RAPPORT-<captured subtype>-NUMMER-<digits>".
C4_SubtypeInSurrogate ==
    InRun =>
        \A j \in 1..Len(matches) :
            (/\ matches[j].replaced
             /\ Cfgs[matches[j].idx + 1].generator = "generate_fake_document_sub_id"
             /\ Cfgs[matches[j].idx + 1].pattern = PAT_SUB)
            => /\ Len(matches[j].ret) >= 3
               /\ matches[j].ret[1] = "RAPPORT-"
               /\ SubSeq(matches[j].ret, 2, Len(matches[j].ret) - 2)
                      = Val(matches[j].groups[SubtypeGroup(j)])
               /\ matches[j].ret[Len(matches[j].ret) - 1] = "-NUMMER-"

\* The input with every replaced match span substituted by what _replacement
\* returned for it and everything else copied.
RECURSIVE Substituted(_, _, _)
Substituted(t, ms, from) ==
    IF ms = <<>> THEN Slice(t, from, Len(t))
    ELSE Slice(t, from, ms[1].start)
         \o (IF ms[1].replaced THEN ms[1].ret ELSE Slice(t, ms[1].start, ms[1].end))
         \o Substituted(t, Tail(ms), ms[1].end)

\* The output with every record's original put back for its surrogate; `from` is
\* the output offset reached, `shift` the length the substitutions added so far.
RECURSIVE Restored(_, _, _, _)
Restored(o, recs, from, shift) ==
    IF recs = <<>> THEN Slice(o, from, Len(o))
    ELSE Slice(o, from, recs[1].start + shift)
         \o recs[1].original
         \o Restored(o, Tail(recs), recs[1].start + shift + Len(recs[1].surrogate),
                     shift + Len(recs[1].surrogate) - (recs[1].end - recs[1].start))

\* C5: the output is the input with the replaced spans substituted and every
\* other character, capped matches included, copied in order; putting the
\* originals of the mapping back gives the input again.
C5_OutsideMatchesUnchanged ==
    (pc = "returned" /\ engine # None) =>
        /\ Val(result).text = Substituted(text, matches, 0)
        /\ keep_mapping => Restored(Val(result).text, mapping, 0, 0) = text

C5_Witness ==
    /\ pc = "returned"
    /\ InRun
    /\ keep_mapping
    /\ Unchanged # {}
    /\ Len(mapping) >= 1
    /\ \E j \in 1..Len(matches) : matches[j].start > 0
    /\ Len(Val(result).text) # Len(text)

\* A binding with a cap whose category counter has reached the cap.
CapExhausted ==
    \E i \in 1..Len(Cfgs) :
        LimitReached(Cfgs[i], CountOf(per_type_counts, Cfgs[i].phi_type))

\* C6 as stated: at most as many records as matches, and strictly fewer once a
\* category's counter has reached its cap.
C6_FewerOnceExhausted ==
    (InRun /\ keep_mapping) =>
        /\ Len(mapping) <= Len(matches)
        /\ CapExhausted => Len(mapping) < Len(matches)

\* C6 amended: at most as many records as matches, and strictly fewer exactly
\* when some match was left unchanged because its binding's limit was reached;
\* the records are the matches that were replaced.
C6_FewerOnceMatchCapped ==
    (InRun /\ keep_mapping) =>
        /\ Len(mapping) <= Len(matches)
        /\ Len(mapping) < Len(matches) <=> Unchanged # {}
        /\ Len(mapping) + Cardinality(Unchanged) = Len(matches)

C6_Witness ==
    /\ InRun
    /\ keep_mapping
    /\ Unchanged # {}
    /\ Len(mapping) >= 1
    /\ Len(mapping) < Len(matches)

\* C10: every record's offsets are offsets into the input with input[start:end]
\* the record's original, the records are in order of appearance without
\* overlap, and the surrogate is what stands at the span in the output.
C10_RecordsLocateOriginals ==
    (InRun /\ keep_mapping) =>
        /\ \A i \in 1..Len(mapping) :
               /\ 0 <= mapping[i].start
               /\ mapping[i].start <= mapping[i].end
               /\ mapping[i].end <= Len(text)
               /\ Slice(text, mapping[i].start, mapping[i].end) = mapping[i].original
        /\ \A i \in 1..(Len(mapping) - 1) : mapping[i].end <= mapping[i + 1].start
        /\ pc = "returned" =>
               \A i \in 1..Len(mapping) :
                   \E shift \in {Sum([k \in 1..(i - 1) |->
                                        Len(mapping[k].surrogate)
                                        - (mapping[k].end - mapping[k].start)])} :
                       Slice(Val(result).text, mapping[i].start + shift,
                             mapping[i].start + shift + Len(mapping[i].surrogate))
                           = mapping[i].surrogate

C10_Witness ==
    /\ pc = "returned"
    /\ InRun
    /\ keep_mapping
    /\ Len(mapping) >= 2
    /\ mapping[1].start > 0
    /\ Len(mapping[1].surrogate) # mapping[1].end - mapping[1].start

(***************************************************************************)
(* Determinism of seeded runs.                                             *)
(***************************************************************************)
\* C3: two finished runs under the same seed, the same bindings and the same
\* input give the same result.
C3_SeededRunsRepeat ==
    \A i, j \in 1..Len(runs) :
        (/\ runs[i].seed # None
         /\ runs[i].seed = runs[j].seed
         /\ runs[i].configs = runs[j].configs
         /\ runs[i].text = runs[j].text
         /\ runs[i].keep_mapping = runs[j].keep_mapping)
        => runs[i].result = runs[j].result

(***************************************************************************)
(* Properties of build_pattern_configs.                                    *)
(***************************************************************************)
PatternsIn(final) == UNION {Range(final[i].patterns) : i \in 1..Len(final)}
TypesOf(final, p) == {final[i].phi_type : i \in {k \in 1..Len(final) : p \in Range(final[k].patterns)}}
Collides(final) == \E p \in PatternsIn(final) : Cardinality(TypesOf(final, p)) >= 2

\* Every pair of different categories bound to one pattern.
AllPairs(final) ==
    UNION {{[pattern |-> p, types |-> ab] :
               ab \in {x \in SUBSET TypesOf(final, p) : Cardinality(x) = 2}} :
           p \in PatternsIn(final)}

Listed(conflicts) ==
    {[pattern |-> c.pattern, types |-> {c.first, c.second}] : c \in Range(conflicts)}

\* The first category, in registry order, bound to pattern p.
FirstOwner(final, p) ==
    final[CHOOSE i \in 1..Len(final) :
              /\ p \in Range(final[i].patterns)
              /\ \A k \in 1..(i - 1) : p \notin Range(final[k].patterns)].phi_type

PairsWithFirstOwner(final) ==
    UNION {{[pattern |-> p, first |-> FirstOwner(final, p), second |-> t] :
               t \in TypesOf(final, p) \ {FirstOwner(final, p)}} :
           p \in PatternsIn(final)}

\* C7 as stated: ValueError and no bindings exactly on a collision, with every
\* conflicting pair of categories listed.
C7_ListsEveryPair ==
    built # None =>
        \A o \in {Val(built).outcome}, final \in {FinalPatternsPerType(Val(built).custom)} :
            /\ o.status = "ValueError" <=> Collides(final)
            /\ o.status # "ValueError" => o.status = "ok"
            /\ o.status = "ValueError" =>
                   /\ o.configs = <<>>
                   /\ Listed(o.conflicts) = AllPairs(final)

\* C7 amended: ValueError and no bindings exactly on a collision; the error
\* lists, once each, the pairs (first category bound to the pattern, a later
\* category bound to it), and no pair of two later categories.
C7_ListsPairsWithFirstOwner ==
    built # None =>
        \A o \in {Val(built).outcome}, final \in {FinalPatternsPerType(Val(built).custom)} :
            /\ o.status = "ValueError" <=> Collides(final)
            /\ o.status # "ValueError" => o.status = "ok"
            /\ o.status = "ValueError" => o.configs = <<>>
            /\ Range(o.conflicts) = PairsWithFirstOwner(final)
            /\ Len(o.conflicts) = Cardinality(PairsWithFirstOwner(final))

C7_Witness ==
    /\ built # None
    /\ Val(built).outcome.status = "ValueError"
    /\ \E p \in PatternsIn(FinalPatternsPerType(Val(built).custom)) :
           Cardinality(TypesOf(FinalPatternsPerType(Val(built).custom), p)) = 3

(***************************************************************************)
(* Properties of the constructor.                                          *)
(***************************************************************************)
\* The category-to-pattern assignment of a binding list, as the registry holds
\* one: categories in order of first appearance, each with its patterns.
RECURSIVE PatternsFor(_, _)
PatternsFor(cfgs, t) ==
    IF cfgs = <<>> THEN <<>>
    ELSE (IF cfgs[1].phi_type = t THEN <<cfgs[1].pattern>> ELSE <<>>)
         \o PatternsFor(Tail(cfgs), t)

Assignment(cfgs) ==
    [i \in 1..Len(Dedup([k \in 1..Len(cfgs) |-> cfgs[k].phi_type])) |->
        [phi_type |-> Dedup([k \in 1..Len(cfgs) |-> cfgs[k].phi_type])[i],
         patterns |-> Dedup(PatternsFor(cfgs,
                          Dedup([k \in 1..Len(cfgs) |-> cfgs[k].phi_type])[i]))]]

\* Indexes of the bindings whose pattern an earlier binding of another
\* category already holds.
Clashing(cfgs) ==
    {j \in 1..Len(cfgs) :
        \E i \in 1..(j - 1) : cfgs[i].pattern = cfgs[j].pattern
                              /\ cfgs[i].phi_type # cfgs[j].phi_type}

FirstClash(cfgs) ==
    \* the first clashing binding with the first holder of its pattern
    [pattern |-> cfgs[CHOOSE j \in Clashing(cfgs) : \A k \in Clashing(cfgs) : j <= k].pattern,
     first |-> cfgs[CHOOSE i \in 1..Len(cfgs) :
                       /\ cfgs[i].pattern =
                              cfgs[CHOOSE j \in Clashing(cfgs) :
                                       \A k \in Clashing(cfgs) : j <= k].pattern
                       /\ \A h \in 1..(i - 1) : cfgs[h].pattern # cfgs[i].pattern].phi_type,
     second |-> cfgs[CHOOSE j \in Clashing(cfgs) : \A k \in Clashing(cfgs) : j <= k].phi_type]

\* C8 as stated: a hand-assembled list fails exactly when the registry check
\* reports a conflict for its assignment, with the same conflicting pairs.
C8_SamePairsAsRegistry ==
    /\ (pc = "ready" /\ engine # None) =>
           RegistryConflicts(Assignment(Val(engine).pattern_configs)) = <<>>
    /\ (pc = "error" /\ error # None) =>
           /\ engine = None
           /\ RegistryConflicts(Assignment(Val(error).pattern_configs)) # <<>>
           /\ Listed(Val(error).conflicts)
                  = Listed(RegistryConflicts(Assignment(Val(error).pattern_configs)))

\* C8 amended: construction fails exactly when the registry check reports a
\* conflict for the list's assignment; the error names one pair only, the first
\* clashing binding in list order with the first holder of its pattern; a failed
\* construction leaves no engine and does not seed.
C8_FailsWhenRegistryWould ==
    [][pc' # pc =>
          /\ (pc' = "ready") =>
                 /\ engine' # None
                 /\ RegistryConflicts(Assignment(Val(engine').pattern_configs)) = <<>>
          /\ (pc' = "error") =>
                 /\ engine' = None
                 /\ rng' = rng
                 /\ RegistryConflicts(Assignment(Val(error').pattern_configs)) # <<>>
                 /\ Val(error').type = "ValueError"
                 /\ Val(error').conflicts = <<FirstClash(Val(error').pattern_configs)>>]_vars

C8_Witness ==
    /\ pc = "error"
    /\ error # None
    /\ Len(RegistryConflicts(Assignment(Val(error).pattern_configs))) >= 2

(***************************************************************************)
(* Properties of generate_fake_age.                                        *)
(***************************************************************************)
\* C9: the call always reaches its return, the age returned is within
\* [AGE_MIN, AGE_MAX], at most ten rejection draws are made, and only after ten
\* draws out of bounds is one further draw clamped.
C9_AgeWithinBounds ==
    /\ age_i <= AGE_RETRIES
    /\ age_pc \in {"loop", "fallback"} => ENABLED NextAge
    /\ age_pc = "loop" =>
           /\ age_i < AGE_RETRIES
           /\ age_k \in 0..(Len(age_defaults.AGE_GMM_MEANS) - 1)
           /\ age_k \in 0..(Len(age_defaults.AGE_GMM_VARS) - 1)
    /\ age_pc = "fallback" => age_i = AGE_RETRIES
    /\ age_clamped => age_i = AGE_RETRIES /\ age_pc = "done"
    /\ age_pc = "done" <=> age_out # None
    /\ age_out # None => InBounds(age_defaults, Val(age_out))

C9_Witness ==
    /\ age_pc = "done"
    /\ age_clamped
    /\ age_i = AGE_RETRIES
    /\ Sum(age_defaults.AGE_GMM_WEIGHTS) <= 0
    /\ age_defaults.AGE_GMM_VARS[age_k + 1] <= 0
    /\ Val(age_out) = age_defaults.AGE_MIN
    /\ age_defaults.AGE_MIN < age_defaults.AGE_MAX

(***************************************************************************)
(* The bindings build_pattern_configs returns.                             *)
(***************************************************************************)
DefaultsOf(t) ==
    DEFAULT_PATTERNS[CHOOSE i \in 1..Len(DEFAULT_PATTERNS) :
                         DEFAULT_PATTERNS[i].phi_type = t].patterns

FirstIndex(src, x) == CHOOSE i \in 1..Len(src) : src[i] = x /\ \A k \in 1..(i - 1) : src[k] # x

\* ps holds each element of src once, in the order of first occurrence in src.
IsDedupOf(ps, src) ==
    /\ Range(ps) = Range(src)
    /\ \A i, j \in 1..Len(ps) : i < j => FirstIndex(src, ps[i]) < FirstIndex(src, ps[j])

RegistryIndex(t) == CHOOSE i \in 1..Len(DEFAULT_PATTERNS) : DEFAULT_PATTERNS[i].phi_type = t

\* C11: a returned binding list holds, for every overridden category, exactly
\* the override's patterns deduplicated in first-occurrence order, and for every
\* other category exactly its deduplicated defaults; the categories follow the
\* registry order, so the list is a function of the inputs alone, and the call
\* touches no random source.
C11_OverridesReplaceDefaults ==
    [][(built' # built /\ built' # None /\ Val(built').outcome.status = "ok") =>
          \A custom \in {Val(built').custom}, configs \in {Val(built').outcome.configs} :
              /\ \A t \in PHITypes :
                     IsDedupOf(PatternsFor(configs, t),
                               IF t \in DOMAIN custom THEN custom[t] ELSE DefaultsOf(t))
              /\ \A i, j \in 1..Len(configs) :
                     i < j => RegistryIndex(configs[i].phi_type)
                                  <= RegistryIndex(configs[j].phi_type)
              /\ \A i \in 1..Len(configs) : configs[i].phi_type \in PHITypes
              /\ rng' = rng
              /\ fake' = fake]_vars

C11_Witness ==
    /\ built # None
    /\ Val(built).outcome.status = "ok"
    /\ \E t \in DOMAIN Val(built).custom :
           /\ Len(Val(built).custom[t]) = 2
           /\ Val(built).custom[t][1] = Val(built).custom[t][2]
           /\ Val(built).custom[t][1] \notin Range(DefaultsOf(t))
           /\ Len(PatternsFor(Val(built).outcome.configs, t)) = 1
    /\ \E u \in PHITypes \ DOMAIN Val(built).custom :
           PatternsFor(Val(built).outcome.configs, u) = DefaultsOf(u)

(***************************************************************************)
(* The sentinel of generate_fake_document_sub_id.                          *)
(***************************************************************************)
\* C12: when the document-sub-id binding fires for a pattern without a subtype
\* capture group, the surrogate is "RAPPORT-X-NUMMER-<digits>".
C12_SentinelWithoutGroup ==
    InRun =>
        \A j \in 1..Len(matches) :
            (/\ matches[j].replaced
             /\ Cfgs[matches[j].idx + 1].generator = "generate_fake_document_sub_id"
             /\ InnerGroups(Cfgs[matches[j].idx + 1].pattern) = 0)
            => /\ Len(matches[j].ret) = 4
               /\ matches[j].ret[1] = "RAPPORT-"
               /\ matches[j].ret[2] = "X"
               /\ matches[j].ret[3] = "-NUMMER-"

(***************************************************************************)
(* The counters over several runs of one engine.                           *)
(***************************************************************************)
\* The matches re.sub finds in text t from position `from` on.
RECURSIVE AllMatches(_, _, _)
AllMatches(cfgs, t, from) ==
    IF HasNextMatch(cfgs, t, from)
    THEN <<NextMatch(cfgs, t, from)>> \o AllMatches(cfgs, t, NextMatch(cfgs, t, from).end)
    ELSE <<>>

MatchCount(cfgs, t, phi_type) ==
    Cardinality({j \in 1..Len(AllMatches(cfgs, t, 0)) :
                    cfgs[AllMatches(cfgs, t, 0)[j].idx + 1].phi_type = phi_type})

RecordCount(map, phi_type) ==
    Cardinality({j \in 1..Len(map) : map[j].phi_type = phi_type})

\* C13: in every run of an engine, whatever earlier runs replaced, the counters
\* start at zero and count this run's replacements only, so a category capped
\* at c gets min(c, its matches in this run's text) replacements in each run.
C13_CountersStartAtZero ==
    /\ InRun => \A t \in PHITypes :
                    CountOf(per_type_counts, t) = Cardinality(ReplacedOf(t))
    /\ (pc = "running" /\ matches = <<>>) => per_type_counts = << >>
    /\ \A i \in 1..Len(runs) :
           runs[i].keep_mapping =>
               \A k \in 1..Len(runs[i].configs) :
                   RecordCount(Val(runs[i].result.mapping), runs[i].configs[k].phi_type)
                       = IF runs[i].configs[k].max_per_document = None
                         THEN MatchCount(runs[i].configs, runs[i].text,
                                         runs[i].configs[k].phi_type)
                         ELSE Min2(Val(runs[i].configs[k].max_per_document),
                                   MatchCount(runs[i].configs, runs[i].text,
                                              runs[i].configs[k].phi_type))

C13_Witness ==
    /\ pc = "returned"
    /\ Len(runs) = 2
    /\ runs[1].keep_mapping
    /\ runs[2].keep_mapping
    /\ Cfgs[1].phi_type = PATIENT_ID
    /\ Cfgs[1].max_per_document = Some(1)
    /\ MatchCount(Cfgs, runs[1].text, PATIENT_ID) = 2
    /\ RecordCount(Val(runs[1].result.mapping), PATIENT_ID) = 1
    /\ MatchCount(Cfgs, runs[2].text, PATIENT_ID) = 2
    /\ RecordCount(Val(runs[2].result.mapping), PATIENT_ID) = 1

(***************************************************************************)
(* Which binding a match is resolved to.                                   *)
(***************************************************************************)
\* The end of the match before match j of the current run.
EndBefore(j) == IF j = 1 THEN 0 ELSE matches[j - 1].end

\* C14: every match starts at the leftmost position, at or after the end of the
\* match before it, where some binding's pattern matches; the binding resolved
\* for it is the earliest binding of the list whose pattern matches there, also
\* when patterns hold capture groups of their own; and run returns only when no
\* binding matches after the last match.
C14_EarliestBindingLeftmostMatch ==
    InRun =>
        /\ \A j \in 1..Len(matches) :
               /\ EndBefore(j) <= matches[j].start
               /\ \A a \in EndBefore(j)..(matches[j].start - 1) : FiringAt(Cfgs, text, a) = {}
               /\ matches[j].idx \in FiringAt(Cfgs, text, matches[j].start)
               /\ \A k \in FiringAt(Cfgs, text, matches[j].start) : matches[j].idx <= k
               /\ matches[j].end
                      = PatternEnd(Cfgs[matches[j].idx + 1].pattern, text, matches[j].start)
               /\ matches[j].start < matches[j].end
        /\ pc = "returned" =>
               \A a \in EndBefore(Len(matches) + 1)..Len(text) : FiringAt(Cfgs, text, a) = {}

C14_Witness ==
    /\ InRun
    /\ pc = "returned"
    /\ \E j \in 1..Len(matches) :
           /\ matches[j].start > 0
           /\ Cardinality(FiringAt(Cfgs, text, matches[j].start)) >= 2
           /\ InnerGroups(Cfgs[matches[j].idx + 1].pattern) = 1
           /\ matches[j].idx >= 1

====
